---- MODULE Spec2Model ----
(***************************************************************************)
(* State-machine model of pyriemann/channelselection.py                    *)
(* (ElectrodeSelection) and pyriemann/clustering.py (_fit_single, Kmeans,  *)
(* KmeansPerClassTransform, Potato).                                       *)
(*                                                                         *)
(* The code is Python 2: range() returns a list, so subelec.pop() works.   *)
(* The MDM classifier and the distance/mean functions live outside the     *)
(* two files; every value they return (a distance, a score) is an input    *)
(* drawn from a small set, and centroid objects are identified by the      *)
(* call that created them.                                                 *)
(*                                                                         *)
(* Each class has its own specification (SpecES, SpecKM, SpecKPC,          *)
(* SpecPotato); the variables of the other classes stay at their           *)
(* constructed values.                                                     *)
(***************************************************************************)
EXTENDS Integers, Sequences, FiniteSets, TLC

VARIABLES
    \* ElectrodeSelection
    nelec,        \* self.nelec
    subelec,      \* self.subelec : None or a list of channel indices
    es_dist,      \* self.dist : the distance log
    es_pc,        \* position inside ElectrodeSelection: "idle" | "loop"
    es_Ne,        \* Ne of the fit call in progress / last finished
    es_fits,      \* number of fit calls started
    es_steps,     \* elimination steps run by the current / last fit call
    es_out,       \* what the last transform call since a fit returned
    \* Kmeans (constructor parameters, then the attributes fit sets)
    n_clusters, max_iter, init, n_init, n_jobs, tol,
    mdm,          \* self.mdm : the MDM object of the selected run, or None
    inertia,      \* self.inertia
    labels,       \* self.labels
    km_pc,        \* position inside Kmeans.fit / _fit_single
    km_N,         \* len(X) of the fit call
    km_i,         \* number of restarts finished
    res,          \* the local res of Kmeans.fit
    km_runs,      \* every (labels, inertia, mdm) _fit_single returned
    fs_labels,    \* _fit_single: labels
    fs_classes,   \* _fit_single: mdm.classes
    fs_k,         \* _fit_single: k, the rounds run so far
    fs_old_labels,\* _fit_single: old_labels
    fs_ret,       \* _fit_single: the returned (labels, inertia, mdm)
    \* KmeansPerClassTransform (self.km is the Kmeans above)
    covmeans,     \* self.covmeans : the combined centroid list
    kpc_classes,  \* self.classes
    kpc_pc,       \* position inside KmeansPerClassTransform
    kpc_y,        \* the label vector y of the fit call
    kpc_pos,      \* position of the for loop in self.classes
    kpc_fits,     \* number of fit calls started
    kpc_cols,     \* columns of the last transform since fit began, or -1
    \* Potato
    threshold, n_iter_max,
    self_mean,    \* self._mean
    self_std,     \* self._std
    y_old,        \* fit: the local y_old, or unbound
    p_y,          \* fit: the local y once a round has assigned it
    p_pc,         \* position inside Potato.fit
    p_N,          \* len(X) of the fit call
    p_yGiven,     \* the argument y of the fit call is not None
    p_rounds,     \* passes of the for loop completed
    p_prev,       \* y_old as the last completed pass found it
    p_rejected,   \* trials some completed pass of this call has rejected
    p_degenerate, \* a completed pass had an empty accepted set or no std
    p_err         \* the exception fit raised, or "none"

es_vars == <<nelec, subelec, es_dist, es_pc, es_Ne, es_fits, es_steps,
             es_out>>

km_vars == <<n_clusters, max_iter, init, n_init, n_jobs, tol, mdm, inertia,
             labels, km_pc, km_N, km_i, res, km_runs, fs_labels, fs_classes,
             fs_k, fs_old_labels, fs_ret>>

kpc_vars == <<covmeans, kpc_classes, kpc_pc, kpc_y, kpc_pos, kpc_fits,
              kpc_cols>>

p_vars == <<threshold, n_iter_max, self_mean, self_std, y_old, p_y, p_pc,
            p_N, p_yGiven, p_rounds, p_prev, p_rejected, p_degenerate, p_err>>

vars == <<es_vars, km_vars, kpc_vars, p_vars>>

(***************************************************************************)
(* Bounds                                                                  *)
(***************************************************************************)
MaxNe == 3          \* largest channel count of an input
MaxFits == 2        \* fit calls per instance
MaxTrials == 2      \* largest number of trials of an input
MaxIter == 2        \* largest max_iter
MaxNInit == 2       \* largest n_init
MaxClusters == 2    \* largest n_clusters
MaxPotatoTrials == 4 \* largest number of trials given to Potato.fit
MaxRounds == 3      \* largest n_iter_max

\* the values a distance or a score takes
DistValues == {0, 1}

(***************************************************************************)
(* Python helpers                                                          *)
(***************************************************************************)
\* range(0, n, 1) as a Python 2 list (0-based values, 1-based positions)
Range(n) == [i \in 1..n |-> i - 1]

\* list.pop(idx) with a 0-based idx: the list without that position
Pop(s, idx) == [i \in 1..(Len(s) - 1) |-> IF i <= idx THEN s[i] ELSE s[i + 1]]

SeqMax(s) == CHOOSE v \in {s[i] : i \in 1..Len(s)} :
                 \A i \in 1..Len(s) : s[i] <= v

\* numpy argmax of a vector: 0-based index of the first maximum
ArgMax(s) == (CHOOSE i \in 1..Len(s) :
                 /\ s[i] = SeqMax(s)
                 /\ \A j \in 1..(i - 1) : s[j] < s[i]) - 1

SeqToSet(s) == {s[i] : i \in 1..Len(s)}

NoneVal == [isNone |-> TRUE, v |-> <<>>]
Some(s) == [isNone |-> FALSE, v |-> s]

(***************************************************************************)
(* ElectrodeSelection                                                      *)
(***************************************************************************)
\* no transform call has returned since the instance was made or fitted
ES_NoOut == [called |-> FALSE, width |-> 0, err |-> FALSE, sel |-> <<>>,
             fitted |-> FALSE]

\* __init__: subelec = None, dist = []
ES_Init ==
    /\ nelec \in 0..(MaxNe + 1)
    /\ subelec = NoneVal
    /\ es_dist = <<>>
    /\ es_pc = "idle"
    /\ es_Ne = 0
    /\ es_fits = 0
    /\ es_steps = 0
    /\ es_out = ES_NoOut

\* while (len(self.subelec)) > self.nelec
ES_LoopCondMutant(sub, target) == Len(sub) >= target
ES_LoopCond(sub, target) == Len(sub) > target

\* fit, up to the first test of the while loop: the centroids of an input
\* with n channels are computed and the working subset is range(0, Ne, 1)
ES_FitBegin(n) ==
    /\ es_pc = "idle"
    /\ es_fits < MaxFits
    /\ es_Ne' = n
    /\ subelec' = Some(Range(n))
    /\ es_pc' = "loop"
    /\ es_fits' = es_fits + 1
    /\ es_steps' = 0
    /\ es_out' = ES_NoOut
    /\ UNCHANGED <<nelec, es_dist, km_vars, kpc_vars, p_vars>>

\* one pass of the while loop; di[idx] is the summed pairwise distance of
\* the class centroids restricted to the subset without position idx
ES_Eliminate(di) ==
    /\ es_pc = "loop"
    /\ ES_LoopCond(subelec.v, nelec)
    /\ Len(subelec.v) > 0     \* implied by the loop test, as nelec >= 0
    /\ Len(di) = Len(subelec.v)
    /\ LET torm == ArgMax(di)
       IN  /\ es_dist' = Append(es_dist, SeqMax(di))
           /\ subelec' = Some(Pop(subelec.v, torm))
    /\ es_steps' = es_steps + 1
    /\ UNCHANGED <<nelec, es_pc, es_Ne, es_fits, es_out, km_vars, kpc_vars, p_vars>>

\* the while condition is false: return self
ES_FitReturn ==
    /\ es_pc = "loop"
    /\ ~ES_LoopCond(subelec.v, nelec)
    /\ es_pc' = "idle"
    /\ UNCHANGED <<nelec, subelec, es_dist, es_Ne, es_fits, es_steps,
                   es_out, km_vars, kpc_vars, p_vars>>

\* X[:, self.subelec, :][:, :, self.subelec] on an input of the given
\* width: IndexError when an index is out of bounds
ES_Select(sub, width) ==
    IF \E i \in 1..Len(sub) : sub[i] >= width
    THEN [err |-> TRUE, sel |-> <<>>]
    ELSE [err |-> FALSE, sel |-> sub]

\* transform
ES_Transform(width) ==
    /\ es_pc = "idle"
    /\ LET sub == IF subelec.isNone THEN Range(width) ELSE subelec.v
           r == ES_Select(sub, width)
       IN  /\ subelec' = Some(sub)
           /\ es_out' = [called |-> TRUE, width |-> width, err |-> r.err,
                         sel |-> r.sel, fitted |-> es_fits > 0]
    /\ UNCHANGED <<nelec, es_dist, es_pc, es_Ne, es_fits, es_steps, km_vars,
                   kpc_vars, p_vars>>

ES_Next ==
    \/ \E n \in 1..MaxNe : ES_FitBegin(n)
    \/ \E m \in 1..MaxNe : \E di \in [1..m -> DistValues] : ES_Eliminate(di)
    \/ ES_FitReturn
    \/ \E w \in 1..MaxNe : ES_Transform(w)

(***************************************************************************)
(* _fit_single and Kmeans                                                  *)
(***************************************************************************)
\* tol is held in units of 1 / TolDen (the default 1e-4 is 1)
TolDen == 10000
Tols == {1, 5000}

\* numpy argmin of a vector: 0-based index of the first minimum
ArgMin(s) == (CHOOSE i \in 1..Len(s) :
                 /\ \A j \in 1..Len(s) : s[i] <= s[j]
                 /\ \A j \in 1..(i - 1) : s[j] > s[i]) - 1

\* numpy.unique: the distinct values in ascending order
Unique(s) ==
    LET S == SeqToSet(s)
    IN  CHOOSE u \in [1..Cardinality(S) -> S] :
            \A i \in 1..Cardinality(S) : \A j \in 1..Cardinality(S) :
                i < j => u[i] < u[j]

RECURSIVE Sum(_, _)
Sum(f, n) == IF n = 0 THEN 0 ELSE f[n] + Sum(f, n - 1)

\* a matrix of distances, trials x centroids, as MDM returns it
DistMatrices(n, c) == [1..n -> [1..c -> DistValues]]

\* mdm.classes[dist.argmin(axis=1)]
FS_Assign(classes, d) == [t \in 1..Len(d) |-> classes[ArgMin(d[t]) + 1]]

\* numpy.mean(labels == old_labels) > (1 - tol), in units of 1 / TolDen
FS_Stable(new, old) ==
    LET same == Cardinality({t \in 1..Len(new) : new[t] = old[t]})
    IN  same * TolDen > Len(new) * (TolDen - tol)

\* (k > max_iter) | (numpy.mean(labels == old_labels) > (1 - tol))
FS_Break(k, new, old) == (k > max_iter) \/ FS_Stable(new, old)

\* sum([sum(dist[labels == mdm.classes[i], i]) for i in range(len(classes))])
FS_Inertia(classes, lab, d) ==
    LET col(i) == [t \in 1..Len(d) |->
                      IF lab[t] = classes[i] THEN d[t][i] ELSE 0]
        per == [i \in 1..Len(classes) |-> Sum(col(i), Len(d))]
    IN  Sum(per, Len(classes))

NoMdm == [run |-> -1, classes |-> <<>>]
NoRet == [labels |-> <<>>, inertia |-> 0, mdm |-> NoMdm]

\* the locals of _fit_single when no call of it is on the stack
FS_Locals ==
    /\ fs_labels = <<>>
    /\ fs_classes = <<>>
    /\ fs_k = 0
    /\ fs_old_labels = <<>>
    /\ fs_ret = NoRet

\* the frame of _fit_single is left
FS_Return ==
    /\ fs_labels' = <<>>
    /\ fs_classes' = <<>>
    /\ fs_k' = 0
    /\ fs_old_labels' = <<>>
    /\ fs_ret' = NoRet

\* Kmeans.__init__
KM_Init ==
    /\ n_clusters \in 1..MaxClusters
    /\ max_iter \in 1..MaxIter
    /\ init \in {"random", "k-means++"}
    /\ n_init \in 1..MaxNInit
    /\ n_jobs \in {1, -1}
    /\ tol \in Tols
    /\ mdm = NoMdm
    /\ inertia = 0
    /\ labels = <<>>
    /\ km_pc = "idle"
    /\ km_N = 0
    /\ km_i = 0
    /\ res = <<>>
    /\ km_runs = <<>>
    /\ FS_Locals

\* (self.init is not 'random') | (self.n_init == 1)
KM_SingleRun == (init # "random") \/ (n_init = 1)

\* Kmeans.fit on n trials, up to the first call of _fit_single (y is None)
KM_Enter(n) ==
    /\ km_N' = n
    /\ km_i' = 0
    /\ res' = <<>>
    /\ km_runs' = <<>>
    /\ km_pc' = "fs_start"
    /\ UNCHANGED <<n_clusters, max_iter, init, n_init, n_jobs, tol, mdm,
                   inertia, labels, fs_labels, fs_classes, fs_k,
                   fs_old_labels, fs_ret>>

\* a call of Kmeans.fit on a new instance; _init_centroids needs at least
\* n_clusters trials
KM_FitBegin(n) ==
    /\ km_pc = "idle"
    /\ n >= n_clusters
    /\ KM_Enter(n)
    /\ UNCHANGED <<es_vars, kpc_vars, p_vars>>

\* _fit_single, lines 18-29: the initial centroids, mdm.classes =
\* arange(n_clusters), labels = mdm.predict(X), k = 0
FS_Start(d) ==
    /\ km_pc = "fs_start"
    /\ d \in DistMatrices(km_N, n_clusters)
    /\ fs_classes' = Range(n_clusters)
    /\ fs_labels' = FS_Assign(Range(n_clusters), d)
    /\ fs_k' = 0
    /\ km_pc' = "fs_loop"
    /\ UNCHANGED <<n_clusters, max_iter, init, n_init, n_jobs, tol, mdm,
                   inertia, labels, km_N, km_i, res, km_runs, fs_old_labels,
                   fs_ret>>
    /\ UNCHANGED <<es_vars, kpc_vars, p_vars>>

\* _fit_single, one pass of the while loop (lines 31-37) and, when it
\* breaks, lines 38-40.  mdm.fit(X, old_labels) leaves one centroid per
\* distinct label of old_labels.
FS_Round(d) ==
    /\ km_pc = "fs_loop"
    /\ LET old_labels == fs_labels
           classes == Unique(old_labels)
       IN  /\ d \in DistMatrices(km_N, Len(classes))
           /\ LET new == FS_Assign(classes, d)
                  k == fs_k + 1
              IN  /\ fs_old_labels' = old_labels
                  /\ fs_classes' = classes
                  /\ fs_labels' = new
                  /\ fs_k' = k
                  /\ IF FS_Break(k, new, old_labels)
                     THEN LET r == [labels |-> new,
                                    inertia |-> FS_Inertia(classes, new, d),
                                    mdm |-> [run |-> km_i,
                                             classes |-> classes]]
                          IN  /\ fs_ret' = r
                              /\ km_runs' = Append(km_runs, r)
                              /\ km_pc' = "fs_ret"
                     ELSE UNCHANGED <<fs_ret, km_runs, km_pc>>
    /\ UNCHANGED <<n_clusters, max_iter, init, n_init, n_jobs, tol, mdm,
                   inertia, labels, km_N, km_i, res>>
    /\ UNCHANGED <<es_vars, kpc_vars, p_vars>>

\* lines 135-143 and 177-179: the only run is the result
KM_SingleStore ==
    /\ km_pc = "fs_ret"
    /\ KM_SingleRun
    /\ mdm' = fs_ret.mdm
    /\ inertia' = fs_ret.inertia
    /\ labels' = fs_ret.labels
    /\ km_i' = km_i + 1
    /\ km_pc' = "done"
    /\ FS_Return
    /\ UNCHANGED <<n_clusters, max_iter, init, n_init, n_jobs, tol, km_N, res,
                   km_runs>>
    /\ UNCHANGED <<es_vars, kpc_vars, p_vars>>

\* lines 150-157: res = _fit_single(...) rebinds res to the tuple of this
\* run, so that zip(res) on line 158 is the result list of one run
KM_SeqCollect(rs, r) == <<r>>

\* lines 161-170: Parallel returns the results of all runs in seed order.
\* The runs share no state, so they are taken one after the other.
KM_ParCollect(rs, r) == Append(rs, r)

\* one restart has returned
KM_Collect ==
    /\ km_pc = "fs_ret"
    /\ ~KM_SingleRun
    /\ res' = IF n_jobs = 1 THEN KM_SeqCollect(res, fs_ret)
                            ELSE KM_ParCollect(res, fs_ret)
    /\ km_i' = km_i + 1
    /\ km_pc' = IF km_i + 1 < n_init THEN "fs_start" ELSE "select"
    /\ FS_Return
    /\ UNCHANGED <<n_clusters, max_iter, init, n_init, n_jobs, tol, mdm,
                   inertia, labels, km_N, km_runs>>
    /\ UNCHANGED <<es_vars, kpc_vars, p_vars>>

\* lines 172-179: best = numpy.argmin(inertia)
KM_Select ==
    /\ km_pc = "select"
    /\ LET best == ArgMin([j \in 1..Len(res) |-> res[j].inertia]) + 1
       IN  /\ mdm' = res[best].mdm
           /\ inertia' = res[best].inertia
           /\ labels' = res[best].labels
    /\ km_pc' = "done"
    /\ res' = <<>>
    /\ UNCHANGED <<n_clusters, max_iter, init, n_init, n_jobs, tol, km_N,
                   km_i, km_runs, fs_labels, fs_classes, fs_k,
                   fs_old_labels, fs_ret>>
    /\ UNCHANGED <<es_vars, kpc_vars, p_vars>>

\* the steps of a Kmeans.fit call in progress
KM_Run ==
    \/ \E d \in DistMatrices(km_N, n_clusters) : FS_Start(d)
    \/ \E c \in 1..n_clusters : \E d \in DistMatrices(km_N, c) : FS_Round(d)
    \/ KM_SingleStore
    \/ KM_Collect
    \/ KM_Select

KM_Next ==
    \/ \E n \in 1..MaxTrials : KM_FitBegin(n)
    \/ KM_Run


(***************************************************************************)
(* KmeansPerClassTransform                                                 *)
(***************************************************************************)
\* the label values of y
KPC_Labels == {0, 1}

\* KmeansPerClassTransform.__init__: self.covmeans = []
KPC_Init ==
    /\ covmeans = <<>>
    /\ kpc_classes = <<>>
    /\ kpc_pc = "idle"
    /\ kpc_y = <<>>
    /\ kpc_pos = 1
    /\ kpc_fits = 0
    /\ kpc_cols = -1

\* Kmeans.centroids(): self.mdm.covmeans, one centroid per class of the MDM
\* of the selected run.  A centroid is named by the fit call, the label c
\* of `for c in self.classes` and its position in mdm.covmeans.
KM_Centroids(f, c) ==
    [j \in 1..Len(mdm.classes) |-> [fit |-> f, cls |-> c, idx |-> j]]

\* the number of trials of X[y == c]
KPC_Count(y, c) == Cardinality({t \in 1..Len(y) : y[t] = c})

\* fit, line 237: self.classes = numpy.unique(y); every class of y has at
\* least n_clusters trials, as _init_centroids needs
KPC_FitBegin(y) ==
    /\ kpc_pc = "idle"
    /\ \A c \in SeqToSet(y) : KPC_Count(y, c) >= n_clusters
    /\ kpc_fits < MaxFits
    /\ kpc_y' = y
    /\ kpc_classes' = Unique(y)
    /\ kpc_pos' = 1
    /\ kpc_fits' = kpc_fits + 1
    /\ kpc_cols' = -1
    /\ kpc_pc' = "loop"
    /\ UNCHANGED <<covmeans, km_vars, es_vars, p_vars>>

\* line 239: self.km.fit(X[y == c]) is entered
KPC_CallKm ==
    /\ kpc_pc = "loop"
    /\ kpc_pos <= Len(kpc_classes)
    /\ km_pc \in {"idle", "done"}
    /\ KM_Enter(KPC_Count(kpc_y, kpc_classes[kpc_pos]))
    /\ kpc_pc' = "km"
    /\ UNCHANGED <<covmeans, kpc_classes, kpc_y, kpc_pos, kpc_fits, kpc_cols,
                   es_vars, p_vars>>

\* line 240: self.covmeans.extend(self.km.centroids())
KPC_Extend ==
    /\ kpc_pc = "km"
    /\ km_pc = "done"
    /\ covmeans' = covmeans \o KM_Centroids(kpc_fits, kpc_classes[kpc_pos])
    /\ kpc_pos' = kpc_pos + 1
    /\ kpc_pc' = "loop"
    /\ UNCHANGED <<kpc_classes, kpc_y, kpc_fits, kpc_cols, km_vars, es_vars,
                   p_vars>>

\* line 241: the for loop is over
KPC_FitReturn ==
    /\ kpc_pc = "loop"
    /\ kpc_pos > Len(kpc_classes)
    /\ kpc_pc' = "idle"
    /\ UNCHANGED <<covmeans, kpc_classes, kpc_y, kpc_pos, kpc_fits, kpc_cols,
                   km_vars, es_vars, p_vars>>

\* transform: the distances to every centroid of self.covmeans, one column
\* per centroid
KPC_Transform ==
    /\ kpc_pc = "idle"
    /\ kpc_cols' = Len(covmeans)
    /\ UNCHANGED <<covmeans, kpc_classes, kpc_pc, kpc_y, kpc_pos, kpc_fits,
                   km_vars, es_vars, p_vars>>

KPC_Next ==
    \/ \E n \in 1..MaxTrials : \E y \in [1..n -> KPC_Labels] : KPC_FitBegin(y)
    \/ KPC_CallKm
    \/ KPC_Extend
    \/ KPC_FitReturn
    \/ KPC_Transform
    \/ KM_Run

(***************************************************************************)
(* Potato                                                                  *)
(***************************************************************************)
\* the values numpy.log(distance) takes for a distance > 0
LogDistValues == {0, 1, 2}
Thresholds == {1, 3}

Unset == [kind |-> "unset", num |-> 0, den |-> 1]
Unbound == [bound |-> FALSE, v |-> <<>>]
Bound(m) == [bound |-> TRUE, v |-> m]

\* Potato.__init__
P_Init ==
    /\ threshold \in Thresholds
    /\ n_iter_max \in 0..MaxRounds
    /\ self_mean = Unset
    /\ self_std = Unset
    /\ y_old = Unbound
    /\ p_y = <<>>
    /\ p_pc = "idle"
    /\ p_N = 0
    /\ p_yGiven = FALSE
    /\ p_rounds = 0
    /\ p_prev = <<>>
    /\ p_rejected = {}
    /\ p_degenerate = FALSE
    /\ p_err = "none"

\* what MDM.fit followed by MDM.transform does on an empty trial set: MDM
\* is not part of the two files, so both outcomes are kept
MDM_OnEmpty == {"raise", "empty"}

\* the sum of f over the trials of ix
SumOver(f, ix) == Sum([t \in 1..p_N |-> IF t \in ix THEN f[t] ELSE 0], p_N)

\* numpy.mean(d): the sum over the count
P_Mean(d, ix) == [kind |-> "num", num |-> SumOver(d, ix),
                  den |-> Cardinality(ix)]

\* numpy.std(d) = sqrt(num) / den with num = n * sum(d^2) - sum(d)^2
P_Std(d, ix) ==
    LET n == Cardinality(ix)
        S == SumOver(d, ix)
        Q == SumOver([t \in ix |-> d[t] * d[t]], ix)
    IN  [kind |-> "num", num |-> n * Q - S * S, den |-> n]

\* _get_z_score(d)[t] < threshold, with z = (d - mean) / std.  A nan mean
\* or std and a zero std (0 / 0) give nan, and nan < threshold is False.
P_ZBelow(dt, mean, std, thr) ==
    IF mean.kind # "num" \/ std.kind # "num" \/ std.num = 0
    THEN FALSE
    ELSE LET a == mean.den * dt - mean.num     \* (d - mean) * n
             V == std.num                      \* (std * n)^2
         IN  IF thr >= 0
             THEN a < 0 \/ a * a < thr * thr * V
             ELSE a < 0 /\ a * a > thr * thr * V

\* y = numpy.zeros(len(X)); y[ix] = self._get_z_score(d) < self.threshold
P_NewMaskMutant(n, ix, below) ==
    [t \in 1..n |-> IF t \in ix THEN (IF t \in below THEN 1 ELSE 0) ELSE 1]
P_NewMask(n, ix, below) ==
    [t \in 1..n |-> IF t \in ix /\ t \in below THEN 1 ELSE 0]

\* for n_iter in range(self.n_iter_max)
P_LoopCondMutant(done, max) == done <= max
P_LoopCond(done, max) == done < max

\* fit, lines 306-309: y_old is bound only when y is None
P_FitBegin(n, given) ==
    /\ p_pc = "idle"
    /\ p_N' = n
    /\ p_yGiven' = given
    /\ y_old' = IF given THEN Unbound ELSE Bound([t \in 1..n |-> 1])
    /\ p_pc' = "loop"
    /\ UNCHANGED <<threshold, n_iter_max, self_mean, self_std, p_y, p_rounds,
                   p_prev, p_rejected, p_degenerate, p_err>>
    /\ UNCHANGED <<es_vars, km_vars, kpc_vars>>

\* line 312 with y_old unbound: UnboundLocalError
P_RoundUnbound ==
    /\ p_pc = "loop"
    /\ P_LoopCond(p_rounds, n_iter_max)
    /\ ~y_old.bound
    /\ p_pc' = "error"
    /\ p_err' = "UnboundLocalError"
    /\ UNCHANGED <<threshold, n_iter_max, self_mean, self_std, y_old, p_y,
                   p_N, p_yGiven, p_rounds, p_prev, p_rejected, p_degenerate>>
    /\ UNCHANGED <<es_vars, km_vars, kpc_vars>>

\* the end of one pass, lines 318-323, given the new mean, std and mask
P_EndRound(mean, std, y) ==
    /\ self_mean' = mean
    /\ self_std' = std
    /\ p_y' = y
    /\ p_prev' = y_old.v
    /\ p_rounds' = p_rounds + 1
    /\ p_rejected' = p_rejected \cup {t \in 1..p_N : y[t] = 0}
    /\ p_degenerate' = (p_degenerate \/ std.kind # "num" \/ std.num = 0
                        \/ \A t \in 1..p_N : y[t] = 0)
    /\ IF y = y_old.v
       THEN p_pc' = "done" /\ UNCHANGED y_old
       ELSE y_old' = Bound(y) /\ UNCHANGED p_pc
    /\ UNCHANGED <<threshold, n_iter_max, p_N, p_yGiven, p_err>>
    /\ UNCHANGED <<es_vars, km_vars, kpc_vars>>

\* ix = (y_old == 1), as the set of accepted trials
P_Ix == IF y_old.bound THEN {t \in 1..p_N : y_old.v[t] = 1} ELSE {}

\* one pass of the for loop, lines 312-323, on a non-empty accepted set
\* whose trials are all at a distance > 0 from the centroid; d[t] is the
\* log-distance of accepted trial t.  _get_z_score reads the self._mean
\* and self._std that lines 316-317 have just stored.
P_Round(d) ==
    /\ p_pc = "loop"
    /\ P_LoopCond(p_rounds, n_iter_max)
    /\ y_old.bound
    /\ P_Ix # {}
    /\ d \in [P_Ix -> LogDistValues]
    /\ LET mean == P_Mean(d, P_Ix)
           std == P_Std(d, P_Ix)
       IN  /\ self_mean' = mean
           /\ self_std' = std
           /\ P_EndRound(self_mean', self_std',
                         P_NewMask(p_N, P_Ix,
                             {t \in P_Ix : P_ZBelow(d[t], self_mean',
                                                    self_std', threshold)}))

\* the same pass when some accepted trial is at distance 0 from the
\* centroid: its log is -inf, the mean is -inf, the std is nan and so is
\* every z-score
P_RoundZero ==
    /\ p_pc = "loop"
    /\ P_LoopCond(p_rounds, n_iter_max)
    /\ y_old.bound
    /\ P_Ix # {}
    /\ LET mean == [kind |-> "-inf", num |-> 0, den |-> 1]
           std == [kind |-> "nan", num |-> 0, den |-> 1]
           below == {t \in P_Ix : P_ZBelow(0, mean, std, threshold)}
       IN  P_EndRound(mean, std, P_NewMask(p_N, P_Ix, below))

\* one pass of the for loop on an empty accepted set
P_RoundEmpty(outcome) ==
    /\ p_pc = "loop"
    /\ P_LoopCond(p_rounds, n_iter_max)
    /\ y_old.bound
    /\ P_Ix = {}
    /\ IF outcome = "raise"
       THEN /\ p_pc' = "error"
            /\ p_err' = "MDM"
            /\ UNCHANGED <<threshold, n_iter_max, self_mean, self_std, y_old,
                           p_y, p_N, p_yGiven, p_rounds, p_prev, p_rejected,
                           p_degenerate>>
            /\ UNCHANGED <<es_vars, km_vars, kpc_vars>>
       ELSE P_EndRound([kind |-> "nan", num |-> 0, den |-> 1],
                       [kind |-> "nan", num |-> 0, den |-> 1],
                       P_NewMask(p_N, {}, {}))

\* the for loop is exhausted: line 324, return self
P_Exhausted ==
    /\ p_pc = "loop"
    /\ ~P_LoopCond(p_rounds, n_iter_max)
    /\ p_pc' = "done"
    /\ UNCHANGED <<threshold, n_iter_max, self_mean, self_std, y_old, p_y,
                   p_N, p_yGiven, p_rounds, p_prev, p_rejected, p_degenerate,
                   p_err>>
    /\ UNCHANGED <<es_vars, km_vars, kpc_vars>>

P_Next ==
    \/ \E n \in 1..MaxPotatoTrials : \E given \in BOOLEAN : P_FitBegin(n, given)
    \/ P_RoundUnbound
    \/ \E d \in [P_Ix -> LogDistValues] : P_Round(d)
    \/ P_RoundZero
    \/ \E outcome \in MDM_OnEmpty : P_RoundEmpty(outcome)
    \/ P_Exhausted

(***************************************************************************)
(* Specifications                                                          *)
(***************************************************************************)
\* the parameters of an instance that is not exercised
KM_Default == max_iter = 1 /\ init = "random" /\ n_init = 1 /\ n_jobs = 1
              /\ tol = 1 /\ n_clusters = 1

\* the parameters of a Potato that is not exercised
P_Default == threshold = 3 /\ n_iter_max = 0

InitES == ES_Init /\ KM_Init /\ KM_Default /\ KPC_Init /\ P_Init /\ P_Default
NextES == ES_Next
SpecES == InitES /\ [][NextES]_vars

InitKM == KM_Init /\ ES_Init /\ nelec = 0 /\ KPC_Init /\ P_Init /\ P_Default
NextKM == KM_Next
SpecKM == InitKM /\ [][NextKM]_vars

\* KmeansPerClassTransform(n_clusters=2, max_iter=1, n_init=...)
InitKPC == KPC_Init /\ KM_Init /\ max_iter = 1 /\ init = "random"
           /\ n_jobs = 1 /\ tol = 1 /\ ES_Init /\ nelec = 0
           /\ P_Init /\ P_Default
NextKPC == KPC_Next
SpecKPC == InitKPC /\ [][NextKPC]_vars

InitPotato == P_Init /\ ES_Init /\ nelec = 0 /\ KM_Init /\ KM_Default
              /\ KPC_Init
NextPotato == P_Next
SpecPotato == InitPotato /\ [][NextPotato]_vars

\* fit is a sequential program: a step that can be taken is taken
SpecPotatoFair == SpecPotato /\ WF_vars(NextPotato)

(***************************************************************************)
(* ElectrodeSelection: properties                                          *)
(***************************************************************************)
ES_Returned == es_pc = "idle" /\ es_fits > 0 /\ ~subelec.isNone

\* the subset a finished fit leaves behind
ES_SubsetShape ==
    ES_Returned =>
        LET sub == subelec.v
        IN  /\ \A i \in 1..Len(sub) : sub[i] >= 0 /\ sub[i] < es_Ne
            /\ \A i \in 1..Len(sub) : \A j \in 1..Len(sub) :
                   i < j => sub[i] < sub[j]
            /\ (nelec <= es_Ne => Len(sub) = nelec)
            /\ (nelec >= es_Ne => sub = Range(es_Ne) /\ es_steps = 0)

\* one elimination step
ES_StepShrinks ==
    (es_pc = "loop" /\ es_pc' = "loop") =>
        /\ Len(subelec'.v) = Len(subelec.v) - 1
        /\ SeqToSet(subelec'.v) \subseteq SeqToSet(subelec.v)

\* C3: for 0 <= nelec <= n, fit ends with exactly nelec distinct indices of
\* [0, n) in ascending order; every elimination step removes exactly one
\* index and adds none; with nelec >= n the subset is 0..n-1 and no
\* elimination step runs.
C3_Selection == []ES_SubsetShape /\ [][ES_StepShrinks]_vars

\* a fit that kept channel 1 of three channels, after two elimination steps
C3_Witness ==
    /\ ES_Returned
    /\ es_Ne = 3
    /\ nelec = 1
    /\ es_steps = 2
    /\ subelec.v = <<1>>

\* C2: after any sequence of fit calls, dist holds exactly n - nelec
\* entries, those of the most recent fit (nelec <= n).
C2_DistLogOfLastFit ==
    (ES_Returned /\ nelec <= es_Ne) => Len(es_dist) = es_Ne - nelec

\* C7: every transform on a never fitted instance returns its input
\* unchanged: the identity subset of the width of that call's input.
C7_UnfittedTransformIsIdentity ==
    (es_out.called /\ ~es_out.fitted) =>
        (~es_out.err /\ es_out.sel = Range(es_out.width))

(***************************************************************************)
(* Kmeans: properties                                                      *)
(***************************************************************************)
\* C1: with init='random' and n_init > 1 (n_jobs == 1 or not), the stored
\* inertia is <= the inertia of every one of the n_init runs of
\* _fit_single, and the stored labels, inertia and mdm are those of one
\* and the same run.
C1_BestRestartStored ==
    (km_pc = "done" /\ init = "random" /\ n_init > 1) =>
        /\ Len(km_runs) = n_init
        /\ \A j \in 1..Len(km_runs) : inertia <= km_runs[j].inertia
        /\ \E j \in 1..Len(km_runs) :
               km_runs[j] = [labels |-> labels, inertia |-> inertia,
                             mdm |-> mdm]

\* C10: _fit_single runs at most max_iter rounds, and stops before
\* max_iter rounds only when the fraction of unchanged labels is strictly
\* greater than 1 - tol.
C10_AtMostMaxIterRounds ==
    /\ fs_k <= max_iter
    /\ (km_pc = "fs_ret" /\ fs_k < max_iter) =>
           FS_Stable(fs_labels, fs_old_labels)

(***************************************************************************)
(* KmeansPerClassTransform: properties                                     *)
(***************************************************************************)
\* C4: after any sequence of fit calls the combined centroid set holds
\* exactly the centroids of the latest fit, one block per distinct label in
\* ascending label order, and transform returns one column per centroid
\* of the latest fit.
C4_CentroidsOfLatestFit ==
    (kpc_pc = "idle" /\ kpc_fits >= 1) =>
        /\ \A i \in 1..Len(covmeans) : covmeans[i].fit = kpc_fits
        /\ {covmeans[i].cls : i \in 1..Len(covmeans)} = SeqToSet(kpc_classes)
        /\ \A i \in 1..Len(covmeans) : \A j \in 1..Len(covmeans) :
               i < j => covmeans[i].cls <= covmeans[j].cls
        /\ (kpc_cols >= 0 =>
               kpc_cols = Cardinality({i \in 1..Len(covmeans) :
                                          covmeans[i].fit = kpc_fits}))

(***************************************************************************)
(* Potato: properties                                                      *)
(***************************************************************************)
\* C5: in every round of one fit call the acceptance mask has one entry
\* per input trial, and a trial rejected by some round is rejected after
\* every later round: the accepted set of a round is a subset of the
\* accepted set of the round before.
C5_RejectionPermanent ==
    p_rounds >= 1 =>
        /\ Len(p_y) = p_N
        /\ Len(p_prev) = p_N
        /\ \A t \in 1..p_N : p_y[t] \in {0, 1}
        /\ \A t \in p_rejected : p_y[t] = 0
        /\ \A t \in 1..p_N : p_y[t] = 1 => p_prev[t] = 1

\* a fit that rejected a trial in one round and kept others to the end
C5_Witness ==
    /\ p_pc = "done"
    /\ p_rounds >= 2
    /\ p_rejected # {}
    /\ \E t \in 1..p_N : p_y[t] = 1

P_Finished == p_pc \in {"done", "error"}

P_RoundsShape ==
    /\ p_rounds <= n_iter_max
    /\ (p_pc = "loop" /\ p_rounds >= 1) => p_y # p_prev
    /\ p_pc = "done" =>
           /\ p_err = "none"
           /\ (p_rounds >= 1 /\ p_y = p_prev) \/ p_rounds = n_iter_max
    /\ (P_Finished /\ p_rounds = n_iter_max) =>
           /\ p_pc = "done"
           /\ n_iter_max >= 1 =>
                  self_mean.kind # "unset" /\ self_std.kind # "unset"

\* C9: fit terminates; it runs at most n_iter_max rounds, goes on to a
\* further round only when the mask of the last round differs from the one
\* before, and when n_iter_max rounds have run it returns normally with the
\* mean and std of the last round.
C9_Terminates == []P_RoundsShape /\ <>P_Finished

\* n_iter_max rounds have run and the mask never stabilised
C9_Witness ==
    /\ p_pc = "done"
    /\ n_iter_max >= 2
    /\ p_rounds = n_iter_max
    /\ p_y # p_prev

\* C6: fit fails when the accepted set becomes empty or the standard
\* deviation of the accepted log-distances is zero; it never goes on, or
\* returns normally, after such a round.
C6_DegenerateInputFails == p_degenerate => p_pc = "error"

\* C8: fit(X, y) with a label vector y completes as fit(X) does: it
\* returns normally, and with n_iter_max >= 1 it has run a round that
\* started from all trials accepted.
C8_LabelsIgnored ==
    (p_yGiven /\ P_Finished) =>
        /\ p_pc = "done"
        /\ n_iter_max >= 1 => p_rounds >= 1

====
